---- MODULE Spec2Model ----
(***************************************************************************)
(* A model of heron_extract/cdr2edc/dfbuilder.py: the data builder back    *)
(* end that stages a job's concept paths in the source repository, selects *)
(* the matching dictionary terms and facts, and copies them in batches     *)
(* into a destination store.                                               *)
(*                                                                         *)
(* Strings that the code inspects (keys, paths, LIKE patterns) are tuples  *)
(* of one-character strings; codes and names, which the code only compares *)
(* for equality, are plain strings.  A table is the sequence of its rows.  *)
(***************************************************************************)
EXTENDS Integers, Sequences, FiniteSets, TLC

\* ---------------------------------------------------------------- bounds

\* Longest concept list of a job.
MaxConcepts == 2
\* Largest batch size of the chunked copy.
MaxBatch == 2
\* Number of times the same request is run against one destination.
MaxRuns == 2
\* Longest key, in characters, that keys_to_paths is applied to on its own.
MaxKeyLen == 5
\* Most concepts in the request of a job that runs beside another.
MaxJobConcepts == 1

\* ------------------------------------------------------- text primitives

\* The path separator, bs = '\\' in keys_to_paths.
bs == "\\"

\* Number of leading segments of a key that keys_to_paths drops: split(bs)[3:].
TableAccessSegments == 3

\* The escape character that _term_query passes to LIKE.
escape == "|"

\* The absence of an ESCAPE clause.
NoEscape == "none"

RECURSIVE SplitFrom(_, _, _)
\* str.split(sep): the segments of s between occurrences of sep; acc is the
\* segment being read.
SplitFrom(s, sep, acc) ==
    IF s = << >> THEN << acc >>
    ELSE IF Head(s) = sep THEN << acc >> \o SplitFrom(Tail(s), sep, << >>)
    ELSE SplitFrom(Tail(s), sep, Append(acc, Head(s)))

Split(s, sep) == SplitFrom(s, sep, << >>)

RECURSIVE Join(_, _)
\* sep.join(segs)
Join(sep, segs) ==
    IF segs = << >> THEN << >>
    ELSE IF Len(segs) = 1 THEN segs[1]
    ELSE segs[1] \o << sep >> \o Join(sep, Tail(segs))

\* key.split(bs)[3:]
DropSegments(segs) ==
    IF Len(segs) <= TableAccessSegments THEN << >>
    ELSE SubSeq(segs, TableAccessSegments + 1, Len(segs))

\* key_to_path that joins only the segments that are not empty.
key_to_path_stripped(key) ==
    << bs >> \o Join(bs, SelectSeq(DropSegments(Split(key, bs)), LAMBDA g : g # << >>))

\* bs + bs.join(key.split(bs)[3:])
key_to_path(key) == << bs >> \o Join(bs, DropSegments(Split(key, bs)))

\* I2B2MetaData.keys_to_paths
keys_to_paths(keys) == [i \in 1..Len(keys) |-> key_to_path(keys[i])]

RECURSIVE Like(_, _, _)
\* SQL: s LIKE p ESCAPE esc.  % matches any run of characters, _ any one
\* character, and the escape character makes the character after it literal;
\* a pattern that ends in the escape character matches nothing.
Like(s, p, esc) ==
    IF p = << >> THEN s = << >>
    ELSE IF Head(p) = esc THEN
        /\ Len(p) >= 2
        /\ s # << >>
        /\ Head(s) = p[2]
        /\ Like(Tail(s), SubSeq(p, 3, Len(p)), esc)
    ELSE IF Head(p) = "%" THEN
        \/ Like(s, Tail(p), esc)
        \/ (s # << >> /\ Like(Tail(s), p, esc))
    ELSE IF Head(p) = "_" THEN
        s # << >> /\ Like(Tail(s), Tail(p), esc)
    ELSE
        s # << >> /\ Head(s) = Head(p) /\ Like(Tail(s), Tail(p), esc)

\* ------------------------------------------------------ table primitives

Min(a, b) == IF a < b THEN a ELSE b

RECURSIVE Flatten(_)
\* The concatenation of a sequence of sequences.
Flatten(ss) == IF ss = << >> THEN << >> ELSE Head(ss) \o Flatten(Tail(ss))

RECURSIVE Distinct(_)
\* SELECT DISTINCT: every row once, at the place of its first occurrence.
Distinct(rows) ==
    IF rows = << >> THEN << >>
    ELSE LET init == Distinct(SubSeq(rows, 1, Len(rows) - 1))
             last == rows[Len(rows)]
         IN  IF \E i \in 1..Len(init) : init[i] = last THEN init
             ELSE Append(init, last)

\* The rows of a sequence as a set.
Range(rows) == {rows[i] : i \in 1..Len(rows)}

\* Characters in the binary collation order of the database.
Collation == << "%", "\\", "_", "a", "b", "c", "k", "t", "z", "|" >>

Ord(c) == CHOOSE i \in 1..Len(Collation) : Collation[i] = c

RECURSIVE TextLess(_, _)
\* s < t as the database compares two strings.
TextLess(s, t) ==
    IF t = << >> THEN FALSE
    ELSE IF s = << >> THEN TRUE
    ELSE IF Head(s) = Head(t) THEN TextLess(Tail(s), Tail(t))
    ELSE Ord(Head(s)) < Ord(Head(t))

RECURSIVE OrderBy(_, _)
\* q.order_by(col): a stable sort of the rows on the text column col.
OrderBy(rows, col) ==
    IF rows = << >> THEN << >>
    ELSE LET init == OrderBy(SubSeq(rows, 1, Len(rows) - 1), col)
             last == rows[Len(rows)]
             k == Cardinality({i \in 1..Len(init) :
                                  ~ TextLess(last[col], init[i][col])})
         IN  SubSeq(init, 1, k) \o << last >> \o SubSeq(init, k + 1, Len(init))

\* How often row r occurs in rs.
Count(rs, r) == Cardinality({i \in 1..Len(rs) : rs[i] = r})

\* The rows as a bag: each row with the number of times it occurs.
BagOf(rs) == [r \in Range(rs) |-> Count(rs, r)]

\* The same rows, each as often, in whatever order.
SameRows(a, b) == BagOf(a) = BagOf(b)

RECURSIVE AnyOrder(_)
\* Every sequence that holds the rows of rs, each as often as rs does.
AnyOrder(rs) ==
    IF rs = << >> THEN {<< >>}
    ELSE UNION {{<< rs[i] >> \o p :
                    p \in AnyOrder(SubSeq(rs, 1, i - 1) \o SubSeq(rs, i + 1, Len(rs)))} :
                 i \in 1..Len(rs)}

\* account.execute(q) of a select without ORDER BY: the cursors it may
\* return.  The statement fixes the rows and the engine their order.
execute_select(rs) == AnyOrder(rs)

\* Delete that leaves the rows in the table.
delete_nothing(tbl) == tbl

\* tbl.delete()
Delete(tbl) == << >>

\* tbl.insert() of the rows, after the rows the table holds.
Insert(tbl, new) == tbl \o new

\* ------------------------------------------- the source repository (cdw)

\* Text of a path: P("a", "b") is \a\b\ and so on.
P1(a) == << bs, a, bs >>
P2(a, b) == << bs, a, bs, b, bs >>

\* concept_dimension of the source: (concept_path, concept_cd, name_char).
\* One code (AB) sits under three paths, two of them under \a\; \ab\, \a_\
\* and \a|b\ differ only in characters that LIKE reads specially.
concept_dimension ==
    << [concept_path |-> P1("a"),               concept_cd |-> "A0", name_char |-> "a"],
       [concept_path |-> P2("a", "b"),          concept_cd |-> "AB", name_char |-> "a b"],
       [concept_path |-> << bs, "a", "_", bs >>, concept_cd |-> "U",  name_char |-> "a_"],
       [concept_path |-> << bs, "a", "b", bs >>, concept_cd |-> "X",  name_char |-> "ab"],
       [concept_path |-> << bs, "a", "|", "b", bs >>, concept_cd |-> "V", name_char |-> "a|b"],
       [concept_path |-> P1("c"),               concept_cd |-> "AB", name_char |-> "c"],
       [concept_path |-> P2("a", "c"),          concept_cd |-> "AB", name_char |-> "a c"] >>

\* modifier_dimension of the source: (modifier_path, modifier_cd, name_char).
modifier_dimension ==
    << [modifier_path |-> << bs >>,                modifier_cd |-> "M0", name_char |-> "root"],
       [modifier_path |-> P1("a"),                 modifier_cd |-> "M1", name_char |-> "m a"],
       [modifier_path |-> P2("a", "b"),            modifier_cd |-> "M2", name_char |-> "m a b"],
       [modifier_path |-> << bs, "c", bs, "%" >>,  modifier_cd |-> "M3", name_char |-> "m c any"] >>

\* observation_fact of the source: (encounter_num, patient_num, concept_cd).
observation_fact ==
    << [encounter_num |-> 1, patient_num |-> 1, concept_cd |-> "A0"],
       [encounter_num |-> 2, patient_num |-> 1, concept_cd |-> "AB"],
       [encounter_num |-> 4, patient_num |-> 2, concept_cd |-> "X"],
       [encounter_num |-> 5, patient_num |-> 3, concept_cd |-> "A0"],
       [encounter_num |-> 6, patient_num |-> 1, concept_cd |-> "V"],
       [encounter_num |-> 7, patient_num |-> 1, concept_cd |-> "NONE"] >>

\* qt_patient_set_collection: patient set 123 holds patients 1 and 2, set 125
\* holds patient 3, and set 124 has no member.
qt_patient_set_collection ==
    << [result_instance_id |-> 123, patient_num |-> 1],
       [result_instance_id |-> 123, patient_num |-> 2],
       [result_instance_id |-> 125, patient_num |-> 3] >>

\* patient_dimension of the source.
patient_dimension ==
    << [patient_num |-> 1], [patient_num |-> 2], [patient_num |-> 3] >>

\* visit_dimension of the source: (encounter_num, patient_num, start_date).
\* Its key is (encounter_num, patient_num).  Patient 1 has two visits at its
\* latest start date; encounter 3 is the number of a visit of patient 1 and
\* of a visit of patient 3.
visit_dimension ==
    << [encounter_num |-> 1, patient_num |-> 1, start_date |-> 10],
       [encounter_num |-> 2, patient_num |-> 1, start_date |-> 20],
       [encounter_num |-> 3, patient_num |-> 1, start_date |-> 20],
       [encounter_num |-> 4, patient_num |-> 2, start_date |-> 5],
       [encounter_num |-> 5, patient_num |-> 3, start_date |-> 7],
       [encounter_num |-> 3, patient_num |-> 3, start_date |-> 6] >>

\* ------------------------------------------------------------- DataExtract

\* save_concepts_bind that zips one pair short.
save_concepts_bind_short(concepts) ==
    LET paths == keys_to_paths(concepts.keys)
        names == concepts.names
    IN  [i \in 1..(Min(Len(paths), Len(names)) - 1) |->
            [char_param1 |-> paths[i], char_param2 |-> names[i]]]

\* The bind list of _save_concepts: one (path, name) row per zipped pair.
save_concepts_bind(concepts) ==
    LET paths == keys_to_paths(concepts.keys)
        names == concepts.names
    IN  [i \in 1..Min(Len(paths), Len(names)) |->
            [char_param1 |-> paths[i], char_param2 |-> names[i]]]

\* The insert statement of the staging step of term_info and of
\* patient_data: if len(bind) > 0: account.execute(ins, bind).
stage_insert(tmp, concepts) ==
    LET bind == save_concepts_bind(concepts)
    IN  IF Len(bind) > 0 THEN Insert(tmp, bind) ELSE tmp

\* The staging step as a whole: account.execute(tmp.delete()), then the
\* insert statement.
stage_concepts(tmp, concepts) == stage_insert(Delete(tmp), concepts)

\* The join condition of q_cd:
\* cd.concept_path LIKE (tmp.char_param1 || '%') ESCAPE '|'.
cd_on(t, c) == Like(c.concept_path, t.char_param1 \o << "%" >>, escape)

\* The join condition of q_md: tmp.char_param1 LIKE md.modifier_path.
md_on(t, m) == Like(t.char_param1, m.modifier_path, NoEscape)

\* q_cd of _term_query, executed against the concept dictionary cd:
\* SELECT DISTINCT cd.* FROM tmp JOIN cd ON cd_on, the dictionary row of
\* every matching pair, each row once.
q_cd(tmp, cd) ==
    Distinct(Flatten([i \in 1..Len(tmp) |->
                 SelectSeq(cd, LAMBDA c : cd_on(tmp[i], c))]))

\* q_md of _term_query, executed against the modifier dictionary md:
\* SELECT DISTINCT md.* FROM tmp JOIN md ON md_on.
q_md(tmp, md) ==
    Distinct(Flatten([i \in 1..Len(tmp) |->
                 SelectSeq(md, LAMBDA m : md_on(tmp[i], m))]))

\* The insertion query of patient_data_queries:
\* select distinct tq.concept_cd from (q_cd) tq.
code_ins(tmp, cd) ==
    LET tq == q_cd(tmp, cd)
    IN  Distinct([i \in 1..Len(tq) |-> [concept_cd |-> tq[i].concept_cd]])

\* The rows of s_facts of patient_data_queries: f JOIN code_tmp JOIN pset
\* WHERE pset.result_instance_id = :id, one row per matching triple.  The
\* query has no ORDER BY: the rows are listed here in the order of f.
s_facts(facts, code_tmp, pset, id) ==
    Flatten([i \in 1..Len(facts) |->
        Flatten([j \in 1..Len(code_tmp) |->
            IF facts[i].concept_cd = code_tmp[j].concept_cd
            THEN [k \in 1..Len(SelectSeq(pset, LAMBDA m :
                        /\ m.patient_num = facts[i].patient_num
                        /\ m.result_instance_id = id)) |-> facts[i]]
            ELSE << >>])])

\* The rows of pd that pat_q selects: pd JOIN pset WHERE
\* pset.result_instance_id = :result_instance_id.  The query has no ORDER BY:
\* the rows are listed here in the order of pd.
pat_q(pd, pset, id) ==
    Flatten([i \in 1..Len(pd) |->
        [k \in 1..Len(SelectSeq(pset, LAMBDA m :
                /\ m.patient_num = pd[i].patient_num
                /\ m.result_instance_id = id)) |-> pd[i]]])

SetMax(S) == CHOOSE m \in S : \A n \in S : n <= m

\* The subquery last of patients_query: per patient of the set that has a
\* patient_dimension row and a visit, the latest start_date.
last(vd, pd, pset, id) ==
    LET joined == {v \in Range(vd) :
                      \E d \in Range(pd), m \in Range(pset) :
                          /\ d.patient_num = v.patient_num
                          /\ m.patient_num = d.patient_num
                          /\ m.result_instance_id = id}
    IN  {[patient_num |-> n,
          last_visit |-> SetMax({v.start_date : v \in {w \in joined : w.patient_num = n}})] :
            n \in {v.patient_num : v \in joined}}

\* The subquery arb_visit: per patient, the greatest encounter_num among the
\* visits at the patient's latest start_date.
arb_visit(vd, pd, pset, id) ==
    LET joined == {v \in Range(vd) :
                      \E l \in last(vd, pd, pset, id) :
                          /\ v.patient_num = l.patient_num
                          /\ v.start_date = l.last_visit}
    IN  {[patient_num |-> n,
          encounter_num |-> SetMax({v.encounter_num : v \in {w \in joined : w.patient_num = n}})] :
            n \in {v.patient_num : v \in joined}}

\* The rows of enc_q: vd JOIN arb_visit ON arb_visit.encounter_num =
\* vd.encounter_num.  The query has no ORDER BY: the rows are listed here in
\* the order of vd.
enc_q(vd, pd, pset, id) ==
    LET arb == arb_visit(vd, pd, pset, id)
    IN  Flatten([i \in 1..Len(vd) |->
            [k \in 1..Cardinality({a \in arb :
                        a.encounter_num = vd[i].encounter_num}) |-> vd[i]]])

\* ---------------------------------------------------------------- DataDest

\* DataExtract.data_tables
data_tables == {"patient_dimension", "visit_dimension", "concept_dimension",
                "modifier_dimension", "observation_fact"}

\* Every table of the destination store: the star schema, job and variable.
DestTables == data_tables \cup {"job", "variable"}

\* The unpacked view that init_tables creates for a table.
unpacked_view ==
    [patient_dimension |-> "patient_dimension_dt",
     visit_dimension |-> "visit_dimension_dt",
     concept_dimension |-> "concept_dimension_dt",
     modifier_dimension |-> "modifier_dimension_dt",
     observation_fact |-> "observation_fact_dt"]

\* The display names of the model's concepts, by position in the request.
concept_names == << "n1", "n2 [3 facts]", "n3", "n4" >>

\* strip_counts on the model's names: re.sub(r' \[\d+.*\]', '', txt).
strip_counts(txt) == IF txt = "n2 [3 facts]" THEN "n2" ELSE txt

\* The rows export_terms inserts into variable: one per zipped
\* (path, key, name), numbered from 0.
variable_rows(concepts) ==
    LET keys == concepts.keys
        names == concepts.names
        paths == keys_to_paths(keys)
    IN  [i \in 1..Min(Len(paths), Min(Len(keys), Len(names))) |->
            [id |-> i - 1,
             item_key |-> keys[i],
             concept_path |-> paths[i],
             name_char |-> names[i],
             name |-> strip_counts(names[i])]]

RECURSIVE OrderByNameChar(_)
\* A stable sort of rows on name_char; the model's names sort as they are
\* listed in concept_names.
OrderByNameChar(rows) ==
    IF rows = << >> THEN << >>
    ELSE LET no(n) == CHOOSE i \in 1..Len(concept_names) : concept_names[i] = n
             init == OrderByNameChar(SubSeq(rows, 1, Len(rows) - 1))
             row == rows[Len(rows)]
             k == Cardinality({i \in 1..Len(init) :
                                  no(init[i].name_char) <= no(row.name_char)})
         IN  SubSeq(init, 1, k) \o << row >> \o SubSeq(init, k + 1, Len(init))

\* NULL in a column; no text equals it and LIKE against it is not true.
Null == << "NULL" >>

\* NULL in a column of names, whose values are plain strings.
NullName == "NULL"

\* The row an insert without parameters writes into variable: the table has
\* no default and no key, so every column is NULL.
variable_defaults ==
    [id |-> Null, item_key |-> Null, concept_path |-> Null,
     name_char |-> NullName, name |-> NullName]

\* dest_db.execute(v.insert(), rows) of export_terms: one row per element of
\* the list; with an empty list the statement is executed once without
\* parameters and writes one row of defaults.
execute_insert(tbl, new) ==
    IF Len(new) = 0 THEN Insert(tbl, << variable_defaults >>) ELSE Insert(tbl, new)

\* The view data_summary of export_summary over the destination tables:
\* f JOIN cd ON cd.concept_cd = f.concept_cd
\*   JOIN v ON cd.concept_path LIKE (v.concept_path || '%')
\* grouped by (v.concept_path, v.name_char); the groups come in the order of
\* their key.
data_summary(f, cd, v) ==
    LET joined ==
            Flatten([i \in 1..Len(f) |->
                Flatten([j \in 1..Len(cd) |->
                    IF cd[j].concept_cd = f[i].concept_cd
                    THEN LET hit == SelectSeq(v, LAMBDA r :
                                 /\ r.concept_path # Null
                                 /\ Like(cd[j].concept_path,
                                         r.concept_path \o << "%" >>, NoEscape))
                         IN  [k \in 1..Len(hit) |->
                                 [concept_path |-> hit[k].concept_path,
                                  name_char |-> hit[k].name_char,
                                  patient_num |-> f[i].patient_num]]
                    ELSE << >>])])
        groups == Distinct([i \in 1..Len(joined) |->
                      [concept_path |-> joined[i].concept_path,
                       name_char |-> joined[i].name_char]])
        of(g) == SelectSeq(joined, LAMBDA r :
                     r.concept_path = g.concept_path /\ r.name_char = g.name_char)
    IN  OrderBy(OrderByNameChar(
                    [i \in 1..Len(groups) |->
                        [concept_path |-> groups[i].concept_path,
                         name_char |-> groups[i].name_char,
                         pat_qty |-> Cardinality({r.patient_num :
                                                     r \in Range(of(groups[i]))}),
                         fact_qty |-> Len(of(groups[i]))]]),
                "concept_path")

\* The update of variable_strip_counts on one name_char:
\* substr(name_char, 1, instr(name_char, ' [') - 1), which is the empty
\* string for a name without ' [' and NULL for NULL.
substr_before_count(txt) ==
    IF txt = NullName THEN NullName
    ELSE IF txt = "n2 [3 facts]" THEN "n2"
    ELSE ""

\* --------------------------------------------------------------- requests

\* A key: the table-access prefix \\tk followed by a path.
Key(path) == << bs, bs, "t", "k" >> \o path

\* The keys a request draws its concepts from.  One path matches nothing in
\* the dictionaries; two hold a character that LIKE reads specially.
Keys == { Key(P1("a")), Key(P1("z")),
          Key(<< bs, "a", "_", bs >>),
          Key(<< bs, "a", "|", "b", bs >>) }

\* The patient sets a request may name.
PatientSets == {123, 124}

\* job_info of a request: concepts (parallel names and keys) and patient_set.
Requests ==
    { [concepts |-> [keys |-> ks, names |-> [i \in 1..Len(ks) |-> concept_names[i]]],
       patient_set |-> ps,
       label |-> "Interesting Cohort",
       filename |-> "job1"] :
        ks \in UNION {[1..n -> Keys] : n \in 0..MaxConcepts}, ps \in PatientSets }

\* What an earlier job on the same connection left in the staging tables.
StaleConcepts == [keys |-> << Key(P1("c")), Key(P1("a")) >>, names |-> << "old1", "old2" >>]
StaleParams == stage_concepts(<< >>, StaleConcepts)
StaleCodes == code_ins(StaleParams, concept_dimension)

\* ------------------------------------------------------------------- state

VARIABLES
    job,                            \* the request being run
    batch,                          \* the batch size of copy_in_chunks
    global_temp_fact_param_table,   \* staging table of paths, in the source
    query_global_temp,              \* staging table of codes, in the source
    pc,                             \* the statement main has reached
    stmt,                           \* statements of the current step executed
    made,                           \* what the current init_tables has created
    run,                            \* 1 for the first run of the request
    tables, views, rows,            \* the destination store
    cursors,                        \* rows the open source cursors still hold
    opened,                         \* rows each cursor held when it was opened
    copySrc, copyTo,                \* the cursor and the table of the current copy
    held,                           \* rows fetched and not yet inserted
    done,                           \* the export steps completed in this run
    failure,                        \* the exception raised in export, if any
    result,                         \* what BuilderApp.__call__ returned
    exc,                            \* the exception that left main, if any
    out,                            \* n_patient and the summary rows of export
    first,                          \* the destination store after the first run
    mail,                           \* what became of the completion mail
    jobs,                           \* the requests of jobs that run concurrently
    at,                             \* the statement each of them has reached
    got,                            \* the rows each of them has selected
    disturbed                       \* the phases of each the other wrote into

vars == << job, batch, global_temp_fact_param_table, query_global_temp, pc, stmt,
           made, run, tables, views, rows, cursors, opened, copySrc, copyTo, held, done,
           failure, result, exc, out, first, mail, jobs, at, got, disturbed >>

source == << job, batch >>
staging == << global_temp_fact_param_table, query_global_temp >>
dest == << tables, views, rows >>
copier == << cursors, opened, copySrc, copyTo, held >>
app == << result, exc, first, run, mail >>
workers == << jobs, at, got, disturbed >>

EmptyRows == [t \in DestTables |-> << >>]
NoCursors == [data |-> << >>, cd |-> << >>, md |-> << >>, pat |-> << >>, enc |-> << >>]
NoFailure == [step |-> "none", table |-> "none", kind |-> "none",
              injected |-> FALSE, lost |-> << >>]
NoOut == [n_patient |-> 0, summary |-> << >>]
Store == [tables |-> tables, views |-> views,
          rows |-> [t \in DestTables |-> BagOf(rows[t])]]

\* Everything but the request, the batch size, the staging tables and the
\* place of control, as it is before a job has done anything.
Fresh ==
    /\ made = {}
    /\ run = 1
    /\ tables = {}
    /\ views = {}
    /\ rows = EmptyRows
    /\ cursors = NoCursors
    /\ opened = NoCursors
    /\ copySrc = "none"
    /\ copyTo = "none"
    /\ held = << >>
    /\ done = << >>
    /\ failure = NoFailure
    /\ result = "none"
    /\ exc = "none"
    /\ out = NoOut
    /\ first = [tables |-> {}, views |-> {}, rows |-> [t \in DestTables |-> BagOf(<< >>)]]
    /\ mail = "none"

Init ==
    /\ job \in Requests
    /\ batch \in 1..MaxBatch
    /\ global_temp_fact_param_table \in {<< >>, StaleParams}
    /\ query_global_temp =
           IF global_temp_fact_param_table = << >> THEN << >> ELSE StaleCodes
    /\ pc = "main"
    /\ stmt = 0
    /\ Fresh
    /\ jobs = << >>
    /\ at = << >>
    /\ got = << >>
    /\ disturbed = << >>

\* ------------------------------------------------------ DataDest.export

\* The steps of export in the order of its statements.
export_steps == << "init_tables", "export_job", "export_data", "export_terms",
                   "export_patients", "export_summary" >>

\* next_step with export_terms called before export_data.
next_step_terms_first(step) ==
    CASE step = "init_tables" -> "export_job"
      [] step = "export_job" -> "export_terms"
      [] step = "export_terms" -> "export_data"
      [] step = "export_data" -> "export_patients"
      [] step = "export_patients" -> "export_summary"
      [] OTHER -> "done"

\* The statement that follows a step of export; after the last, the return.
next_step(step) ==
    LET i == CHOOSE k \in 1..Len(export_steps) : export_steps[k] = step
    IN  IF i < Len(export_steps) THEN export_steps[i + 1] ELSE "done"

\* on_error of an export that logs the exception and goes on.
on_error_continue(step) ==
    CASE step = "init_tables" -> "export_job"
      [] step = "export_job" -> "export_data"
      [] step = "export_data" -> "export_terms"
      [] step = "export_terms" -> "export_patients"
      [] step = "export_patients" -> "export_summary"
      [] OTHER -> "done"

\* Where control goes when a step of export raises: export catches nothing,
\* so the exception leaves it.
on_error(step) == "raised"

\* The step goes on to its next statement.
Continue == pc' = pc /\ stmt' = stmt + 1 /\ made' = made /\ done' = done

\* The step has executed its last statement and export calls the next step.
Finish == pc' = next_step(pc) /\ stmt' = 0 /\ made' = {} /\ done' = Append(done, pc)

\* Statement number n of step `step` is the next to execute, and no copy is
\* under way.
At(step, n) == pc = step /\ stmt = n /\ copyTo = "none"

\* The exceptions user_access and job_storage may raise before the try of
\* __call__.
AccessRaisable == {"OSError", "IOError"}

\* main reads the request and calls the builder, which opens the stores and
\* calls dest.export(job).
Call ==
    /\ pc = "main"
    /\ pc' = export_steps[1]
    /\ UNCHANGED << source, workers, staging, dest, copier, stmt, made, done, failure, app, out >>

\* self._access(username) or job_storage(filename) raises: mkDir fails with
\* something other than EEXIST, or a store cannot be opened.  The call stands
\* before the try of __call__, so the exception leaves __call__ and main.
AccessRaises(kind) ==
    /\ pc = "main"
    /\ pc' = "escaped"
    /\ exc' = kind
    /\ UNCHANGED << source, workers, staging, dest, copier, stmt, made, done, failure,
                    result, first, run, mail, out >>

\* init_tables, dest_star.drop_all(dest_db): one of the tables of the star
\* schema that exist is dropped.  The schema is a dictionary of tables and
\* gives no order.
InitDrop ==
    /\ pc = "init_tables"
    /\ made = {}
    /\ \E t \in data_tables \cap tables :
          /\ tables' = tables \ {t}
          /\ rows' = [rows EXCEPT ![t] = Delete(@)]
    /\ UNCHANGED << source, workers, staging, views, copier, pc, stmt, made, done,
                    failure, app, out >>

\* init_tables, dest_star.create_all(dest_db): once the tables that existed
\* are dropped, one of the tables not yet created is created.
InitCreate ==
    /\ pc = "init_tables"
    /\ data_tables \cap tables \subseteq made
    /\ \E t \in data_tables \ made :
          /\ tables' = tables \cup {t}
          /\ made' = made \cup {t}
    /\ UNCHANGED << source, workers, staging, views, rows, copier, pc, stmt, done,
                    failure, app, out >>

\* init_tables: fd.create_unpacked_view(dest_db, t) for one of the tables
\* not yet taken; a view of that name that exists is replaced.  After the
\* last, init_tables returns.
InitView ==
    /\ pc = "init_tables"
    /\ data_tables \subseteq made
    /\ \E t \in data_tables :
          /\ unpacked_view[t] \notin made
          /\ views' = views \cup {unpacked_view[t]}
          /\ IF made \cup {unpacked_view[t]} =
                    data_tables \cup {unpacked_view[u] : u \in data_tables}
             THEN Finish
             ELSE /\ made' = made \cup {unpacked_view[t]}
                  /\ UNCHANGED << pc, stmt, done >>
    /\ UNCHANGED << source, workers, staging, tables, rows, copier, failure, app, out >>

\* export_job: jobt.drop(bind=dest_db, checkfirst=True)
JobDrop ==
    /\ At("export_job", 0)
    /\ tables' = tables \ {"job"}
    /\ rows' = [rows EXCEPT !["job"] = << >>]
    /\ Continue
    /\ UNCHANGED << source, workers, staging, views, copier, failure, app, out >>

\* export_job: jobt.create(bind=dest_db)
JobCreate ==
    /\ At("export_job", 1)
    /\ tables' = tables \cup {"job"}
    /\ Continue
    /\ UNCHANGED << source, workers, staging, views, rows, copier, failure, app, out >>

\* export_job: the insert of the job row.
JobInsert ==
    /\ At("export_job", 2)
    /\ rows' = [rows EXCEPT !["job"] =
                   Insert(@, << [pset |-> job.patient_set, label |-> job.label,
                                 concepts |-> job.concepts, name |-> job.filename] >>)]
    /\ Finish
    /\ UNCHANGED << source, workers, staging, tables, views, copier, failure, app, out >>

\* table_copy.copy_in_chunks: the next batch of a cursor, at most n rows.
fetch_chunk(cursor, n) == SubSeq(cursor, 1, Min(n, Len(cursor)))

\* What the cursor holds after that batch was fetched.
after_chunk(cursor, n) == SubSeq(cursor, Min(n, Len(cursor)) + 1, Len(cursor))

\* insert_chunk that writes the batch before the rows already copied.
insert_chunk_first(tbl, chunk) == Insert(chunk, tbl)

\* The destination table after the batch was inserted in one write.
insert_chunk(tbl, chunk) == Insert(tbl, chunk)

\* insert_failed of a copier that writes row by row and stops at the error.
insert_failed_partial(tbl, chunk) == Append(tbl, Head(chunk))

\* The destination table after the insert of a batch failed.
insert_failed(tbl, chunk) == tbl

\* What follows a finished copy into table `to` in export_data, export_terms
\* or export_patients: the next copy of the same step (its cursor and
\* table), a further statement of the step, or the next step of export.
\* export_terms copies result_cd into concept_dimension and then result_cd,
\* again, into modifier_dimension; export_patients goes on to count the
\* patients.
after_copy(to) ==
    CASE to = "concept_dimension" ->
             [last |-> FALSE, src |-> "cd", to |-> "modifier_dimension"]
      [] to = "patient_dimension" ->
             [last |-> FALSE, src |-> "enc", to |-> "visit_dimension"]
      [] to = "visit_dimension" ->
             [last |-> FALSE, src |-> "none", to |-> "none"]
      [] OTHER ->
             [last |-> TRUE, src |-> "none", to |-> "none"]

\* export_data, patient_data: account.execute(var_tmp.delete())
DataStageDelete ==
    /\ At("export_data", 0)
    /\ global_temp_fact_param_table' = Delete(global_temp_fact_param_table)
    /\ Continue
    /\ UNCHANGED << source, workers, query_global_temp, dest, copier, failure, app, out >>

\* export_data, patient_data: if len(var_bind) > 0:
\* account.execute(var_ins, var_bind)
DataStageInsert ==
    /\ At("export_data", 1)
    /\ global_temp_fact_param_table' =
           stage_insert(global_temp_fact_param_table, job.concepts)
    /\ Continue
    /\ UNCHANGED << source, workers, query_global_temp, dest, copier, failure, app, out >>

\* export_data, patient_data: account.execute(code_tmp.delete())
DataCodeDelete ==
    /\ At("export_data", 2)
    /\ query_global_temp' = Delete(query_global_temp)
    /\ Continue
    /\ UNCHANGED << source, workers, global_temp_fact_param_table, dest, copier,
                    failure, app, out >>

\* export_data, patient_data: account.execute(ins), the codes of the staged
\* paths.
DataCodeInsert ==
    /\ At("export_data", 3)
    /\ query_global_temp' =
           Insert(query_global_temp,
                  code_ins(global_temp_fact_param_table, concept_dimension))
    /\ Continue
    /\ UNCHANGED << source, workers, global_temp_fact_param_table, dest, copier,
                    failure, app, out >>

\* export_data, patient_data: account.execute(sel, id=patient_set); the rows
\* come in an order of the engine's choosing.
DataSelect ==
    /\ At("export_data", 4)
    /\ \E data \in execute_select(s_facts(observation_fact, query_global_temp,
                                          qt_patient_set_collection, job.patient_set)) :
          /\ cursors' = [cursors EXCEPT !.data = data]
          /\ opened' = [opened EXCEPT !.data = data]
    /\ Continue
    /\ UNCHANGED << source, workers, staging, dest, copySrc, copyTo, held, failure,
                    app, out >>

\* export_data: dest_db.execute(obs.delete()), then the call of
\* copy_in_chunks.
DataObsDelete ==
    /\ At("export_data", 5)
    /\ rows' = [rows EXCEPT !["observation_fact"] = Delete(@)]
    /\ copySrc' = "data"
    /\ copyTo' = "observation_fact"
    /\ Continue
    /\ UNCHANGED << source, workers, staging, tables, views, cursors, opened, held,
                    failure, app, out >>

\* export_terms: v.create(bind=dest_db) has no checkfirst: it raises when the
\* variable table exists.
TermsCreate ==
    /\ At("export_terms", 0)
    /\ IF "variable" \in tables
       THEN /\ failure' = [step |-> pc, table |-> "variable", kind |-> "OperationalError",
                           injected |-> FALSE, lost |-> << >>]
            /\ exc' = "OperationalError"
            /\ pc' = on_error(pc)
            /\ UNCHANGED << tables, stmt, made, done >>
       ELSE /\ tables' = tables \cup {"variable"}
            /\ Continue
            /\ UNCHANGED << failure, exc >>
    /\ UNCHANGED << source, workers, staging, views, rows, copier, result, first, run,
                    mail, out >>

\* export_terms: dest_db.execute(v.insert(), [...]) of the variable rows.
TermsInsert ==
    /\ At("export_terms", 1)
    /\ rows' = [rows EXCEPT !["variable"] =
                   execute_insert(@, variable_rows(job.concepts))]
    /\ Continue
    /\ UNCHANGED << source, workers, staging, tables, views, copier, failure, app, out >>

\* export_terms, term_info: account.execute(tmp.delete())
TermsStageDelete ==
    /\ At("export_terms", 2)
    /\ global_temp_fact_param_table' = Delete(global_temp_fact_param_table)
    /\ Continue
    /\ UNCHANGED << source, workers, query_global_temp, dest, copier, failure, app, out >>

\* export_terms, term_info: if len(bind) > 0: account.execute(ins, bind)
TermsStageInsert ==
    /\ At("export_terms", 3)
    /\ global_temp_fact_param_table' =
           stage_insert(global_temp_fact_param_table, job.concepts)
    /\ Continue
    /\ UNCHANGED << source, workers, query_global_temp, dest, copier, failure, app, out >>

\* export_terms, term_info: account.execute(q_cd ordered by concept_path)
TermsSelectCd ==
    /\ At("export_terms", 4)
    /\ LET cd == OrderBy(q_cd(global_temp_fact_param_table, concept_dimension),
                         "concept_path")
       IN  /\ cursors' = [cursors EXCEPT !.cd = cd]
           /\ opened' = [opened EXCEPT !.cd = cd]
    /\ Continue
    /\ UNCHANGED << source, workers, staging, dest, copySrc, copyTo, held, failure,
                    app, out >>

\* export_terms, term_info: account.execute(q_md ordered by modifier_path),
\* then the first call of copy_in_chunks.
TermsSelectMd ==
    /\ At("export_terms", 5)
    /\ LET md == OrderBy(q_md(global_temp_fact_param_table, modifier_dimension),
                         "modifier_path")
       IN  /\ cursors' = [cursors EXCEPT !.md = md]
           /\ opened' = [opened EXCEPT !.md = md]
    /\ copySrc' = "cd"
    /\ copyTo' = "concept_dimension"
    /\ Continue
    /\ UNCHANGED << source, workers, staging, dest, held, failure, app, out >>

\* export_patients, demographics: account.execute(pat_q, ...), the rows in
\* an order of the engine's choosing.
PatientsSelectPat ==
    /\ At("export_patients", 0)
    /\ \E pat \in execute_select(pat_q(patient_dimension, qt_patient_set_collection,
                                        job.patient_set)) :
          /\ cursors' = [cursors EXCEPT !.pat = pat]
          /\ opened' = [opened EXCEPT !.pat = pat]
    /\ Continue
    /\ UNCHANGED << source, workers, staging, dest, copySrc, copyTo, held, failure,
                    app, out >>

\* export_patients, demographics: account.execute(enc_q, ...), the rows in
\* an order of the engine's choosing; then the first call of copy_in_chunks.
PatientsSelectEnc ==
    /\ At("export_patients", 1)
    /\ \E enc \in execute_select(enc_q(visit_dimension, patient_dimension,
                                        qt_patient_set_collection, job.patient_set)) :
          /\ cursors' = [cursors EXCEPT !.enc = enc]
          /\ opened' = [opened EXCEPT !.enc = enc]
    /\ copySrc' = "pat"
    /\ copyTo' = "patient_dimension"
    /\ Continue
    /\ UNCHANGED << source, workers, staging, dest, held, failure, app, out >>

\* export_patients: select count(*) from patient_dimension
PatientsCount ==
    /\ At("export_patients", 2)
    /\ out' = [out EXCEPT !.n_patient = Len(rows["patient_dimension"])]
    /\ Finish
    /\ UNCHANGED << source, workers, staging, dest, copier, failure, app >>

\* copy_in_chunks fetches the next batch of the cursor.
CopyFetch ==
    /\ copyTo # "none"
    /\ pc \in Range(export_steps)
    /\ held = << >>
    /\ fetch_chunk(cursors[copySrc], batch) # << >>
    /\ held' = fetch_chunk(cursors[copySrc], batch)
    /\ cursors' = [cursors EXCEPT ![copySrc] = after_chunk(@, batch)]
    /\ UNCHANGED << source, workers, staging, dest, pc, stmt, made, opened, copySrc, copyTo,
                    done, failure, app, out >>

\* copy_in_chunks inserts the batch it holds.
CopyInsert ==
    /\ copyTo # "none"
    /\ pc \in Range(export_steps)
    /\ held # << >>
    /\ rows' = [rows EXCEPT ![copyTo] = insert_chunk(@, held)]
    /\ held' = << >>
    /\ UNCHANGED << source, workers, staging, tables, views, pc, stmt, made, cursors, opened,
                    copySrc, copyTo, done, failure, app, out >>

\* copy_in_chunks finds the cursor exhausted and returns.
CopyEnd ==
    /\ copyTo # "none"
    /\ pc \in Range(export_steps)
    /\ held = << >>
    /\ fetch_chunk(cursors[copySrc], batch) = << >>
    /\ LET k == after_copy(copyTo)
       IN  /\ copySrc' = k.src
           /\ copyTo' = k.to
           /\ IF k.last THEN Finish ELSE UNCHANGED << pc, stmt, made, done >>
    /\ UNCHANGED << source, workers, staging, dest, cursors, opened, held, failure,
                    app, out >>

\* export_summary: create view data_summary; it raises when the view exists.
SummaryCreate ==
    /\ At("export_summary", 0)
    /\ IF "data_summary" \in views
       THEN /\ failure' = [step |-> pc, table |-> "data_summary",
                           kind |-> "OperationalError", injected |-> FALSE,
                           lost |-> << >>]
            /\ exc' = "OperationalError"
            /\ pc' = on_error(pc)
            /\ UNCHANGED << views, stmt, made, done >>
       ELSE /\ views' = views \cup {"data_summary"}
            /\ Continue
            /\ UNCHANGED << failure, exc >>
    /\ UNCHANGED << source, workers, staging, tables, rows, copier, result, first, run,
                    mail, out >>

\* export_summary: select * from data_summary, the groups in an order of the
\* engine's choosing, and export returns.
SummarySelect ==
    /\ At("export_summary", 1)
    /\ \E summary \in execute_select(data_summary(rows["observation_fact"],
                                                  rows["concept_dimension"],
                                                  rows["variable"])) :
          out' = [out EXCEPT !.summary = summary]
    /\ Finish
    /\ UNCHANGED << source, workers, staging, dest, copier, failure, app >>

\* The exceptions a statement of export may raise: IOError, or an error of
\* the database layer, which is no IOError.
Raisable == {"IOError", "DBAPIError"}

\* The statement of export that is next raises: the source or the
\* destination store fails.  A batch that was being inserted is not inserted.
StepRaises(kind) ==
    /\ pc \in Range(export_steps)
    /\ failure' = [step |-> pc, table |-> copyTo, kind |-> kind, injected |-> TRUE,
                   lost |-> held]
    /\ rows' = IF held # << >>
               THEN [rows EXCEPT ![copyTo] = insert_failed(@, held)]
               ELSE rows
    /\ held' = << >>
    /\ exc' = kind
    /\ pc' = on_error(pc)
    /\ UNCHANGED << source, workers, staging, tables, views, stmt, made, cursors, opened,
                    copySrc, copyTo, done, result, first, run, mail, out >>

\* ------------------------------------------------- BuilderApp and main

\* Whether the except clause of BuilderApp.__call__ catches the exception.
caught(kind) == kind = "IOError"

\* BuilderApp.__call__ when export returned: return [json.dumps(out)].
CallReturn ==
    /\ pc = "done"
    /\ result' = "json"
    /\ pc' = "parse"
    /\ UNCHANGED << source, workers, staging, dest, copier, stmt, made, done, failure, exc,
                    first, run, mail, out >>

\* BuilderApp.__call__ when export raised: an IOError becomes
\* ['error:', str(ex)]; any other exception leaves __call__ and main.
CallExcept ==
    /\ pc = "raised"
    /\ IF caught(exc)
       THEN result' = "error" /\ exc' = "none" /\ pc' = "parse"
       ELSE result' = result /\ exc' = exc /\ pc' = "escaped"
    /\ UNCHANGED << source, workers, staging, dest, copier, stmt, made, done, failure, first,
                    run, mail, out >>

\* main: json.loads(builder_json[0])['str'].  The first element of an error
\* result is the text 'error:', which is no JSON document.
MainParse ==
    /\ pc = "parse"
    /\ IF result = "json"
       THEN exc' = exc /\ pc' = "mail"
       ELSE exc' = "ValueError" /\ pc' = "escaped"
    /\ UNCHANGED << source, workers, staging, dest, copier, stmt, made, done, failure, result,
                    first, run, mail, out >>

\* The exceptions emailer.sendEmail may raise.
MailRaisable == {"IOError", "SMTPException"}

\* The exceptions the statements before the try of send_completion_mail may
\* raise: email_config.get and gethostname().
MailSetupRaisable == {"IOError", "socket.error"}

\* mail_caught of a send_completion_mail that catches IOError only.
mail_caught_ioerror_only(kind) == kind = "IOError"

\* Whether the except clause around emailer.sendEmail catches the
\* exception: it is `except Exception`.
mail_caught(kind) == TRUE

\* main: send_completion_mail, then return.  Without an email section no
\* mail is sent.  With one, a statement before the try may raise, and the
\* exception leaves send_completion_mail and main; otherwise sendEmail
\* delivers the mail or raises, and what it raises is logged as a warning.
SendMail ==
    /\ pc = "mail"
    /\ \/ mail' = "no_config" /\ pc' = "exit" /\ exc' = exc
       \/ \E kind \in MailSetupRaisable :
              mail' = "not_composed" /\ pc' = "escaped" /\ exc' = kind
       \/ mail' = "sent" /\ pc' = "exit" /\ exc' = exc
       \/ \E kind \in MailRaisable :
              IF mail_caught(kind)
              THEN mail' = "warned" /\ pc' = "exit" /\ exc' = exc
              ELSE mail' = "failed" /\ pc' = "escaped" /\ exc' = kind
    /\ UNCHANGED << source, workers, staging, dest, copier, stmt, made, done, failure, result,
                    first, run, out >>

\* DataDest.variable_strip_counts, the post-hoc migration, on the store a job
\* has left: the columns it would add exist, so each alter table is refused
\* and passed over; then
\* update variable set name = substr(name_char, 1, instr(name_char, ' [') - 1).
\* The store is not exported into again after it.
VariableStripCounts ==
    /\ pc = "exit"
    /\ "variable" \in tables
    /\ LET v == rows["variable"]
       IN  rows' = [rows EXCEPT !["variable"] =
                       [i \in 1..Len(v) |->
                           [v[i] EXCEPT !.name = substr_before_count(v[i].name_char)]]]
    /\ pc' = "migrated"
    /\ UNCHANGED << source, workers, staging, tables, views, copier, stmt, made, done,
                    failure, app, out >>

\* The same request is run again on the same stores.
Rerun ==
    /\ pc = "exit"
    /\ run < MaxRuns
    /\ run' = run + 1
    /\ first' = IF run = 1 THEN Store ELSE first
    /\ pc' = "main"
    /\ stmt' = 0
    /\ made' = {}
    /\ cursors' = NoCursors
    /\ opened' = NoCursors
    /\ copySrc' = "none"
    /\ copyTo' = "none"
    /\ held' = << >>
    /\ done' = << >>
    /\ failure' = NoFailure
    /\ result' = "none"
    /\ exc' = "none"
    /\ out' = NoOut
    /\ mail' = "none"
    /\ UNCHANGED << source, workers, staging, dest >>

Next ==
    \/ Call
    \/ \E kind \in AccessRaisable : AccessRaises(kind)
    \/ InitDrop
    \/ InitCreate
    \/ InitView
    \/ JobDrop
    \/ JobCreate
    \/ JobInsert
    \/ DataStageDelete
    \/ DataStageInsert
    \/ DataCodeDelete
    \/ DataCodeInsert
    \/ DataSelect
    \/ DataObsDelete
    \/ TermsCreate
    \/ TermsInsert
    \/ TermsStageDelete
    \/ TermsStageInsert
    \/ TermsSelectCd
    \/ TermsSelectMd
    \/ PatientsSelectPat
    \/ PatientsSelectEnc
    \/ PatientsCount
    \/ CopyFetch
    \/ CopyInsert
    \/ CopyEnd
    \/ SummaryCreate
    \/ SummarySelect
    \/ \E kind \in Raisable : StepRaises(kind)
    \/ CallReturn
    \/ CallExcept
    \/ MainParse
    \/ SendMail
    \/ VariableStripCounts
    \/ Rerun

Spec == Init /\ [][Next]_vars

\* ------------------------------------------------------------ properties

\* Before statement n of step `step` the latest staging step that was begun,
\* of patient_data or of term_info, has executed its delete and its insert.
StagedAt(step, n) ==
    \/ step = "export_data" /\ n >= 2
    \/ step = "export_terms" /\ n # 3
    \/ step \in {"export_patients", "export_summary"}

\* A staging step of this run has been executed, and none is half way.
StagingRan ==
    IF failure.step # "none" THEN StagedAt(failure.step, stmt)
    ELSE IF pc \in Range(export_steps) THEN StagedAt(pc, stmt)
    ELSE Len(done) = Len(export_steps)

\* One (path, name) row per (key, name) pair of the concepts.
StagingRowsOf(concepts) ==
    [i \in 1..Len(concepts.keys) |->
        [char_param1 |-> key_to_path(concepts.keys[i]),
         char_param2 |-> concepts.names[i]]]

\* C1: after the staging step of term_info or patient_data the staging table
\* holds exactly one (path, name) row per (key, name) pair of the current
\* call's concepts, the empty list included, and no row of an earlier call.
C1_StagingHoldsCurrentCall ==
    StagingRan => global_temp_fact_param_table = StagingRowsOf(job.concepts)

\* term_info has staged two concepts over the rows patient_data staged.
C1_Witness ==
    /\ pc = "export_terms"
    /\ copyTo = "concept_dimension"
    /\ Len(global_temp_fact_param_table) = 2
    /\ global_temp_fact_param_table[1] # global_temp_fact_param_table[2]

\* The order of the steps as the specification gives it.
ExportOrder == << "init_tables", "export_job", "export_data", "export_terms",
                  "export_patients", "export_summary" >>

\* C2: the steps of export run in the order SchemaCreate, ExportJobMetadata,
\* ExportFacts, ExportTerms, ExportPatients, Summarize, Done, each at most
\* once and none before the one before it has completed; the schema is
\* created before any row is written and the job row before any fact row.
C2_StepsInOrder ==
    /\ Len(done) <= Len(ExportOrder)
    /\ done = SubSeq(ExportOrder, 1, Len(done))
    /\ pc \in Range(ExportOrder) => pc = ExportOrder[Len(done) + 1]
    /\ pc = "done" => done = ExportOrder
    /\ Len(done) = 0 =>
           \A t \in DestTables :
               rows[t] = << >> \/ (run > 1 /\ BagOf(rows[t]) = first.rows[t])
    /\ (Len(done) >= 1 /\ rows["observation_fact"] # << >>) =>
           (Len(done) >= 2 /\ Len(rows["job"]) = 1)

\* An export has run through every step and written facts.
C2_Witness ==
    /\ pc = "done"
    /\ Len(done) = 6
    /\ rows["observation_fact"] # << >>
    /\ rows["patient_dimension"] # << >>

\* C3: once a step of export has failed, no later step is executed, Done is
\* not reached for that job, nothing is retried, and what the earlier steps
\* and batches wrote to the destination store stays as it is.
C3_TerminalOnFailure ==
    [][failure.step # "none" =>
          /\ failure' = failure
          /\ done' = done
          /\ tables' = tables /\ views' = views /\ rows' = rows
          /\ pc' \notin (Range(ExportOrder) \cup {"done", "mail", "exit", "main"})]_vars

\* export_terms failed after export_data had copied facts, and the exception
\* has left main with those facts still in the store.
C3_Witness ==
    /\ failure.step = "export_terms"
    /\ pc = "escaped"
    /\ done = << "init_tables", "export_job", "export_data" >>
    /\ rows["observation_fact"] # << >>

\* C4: an error raised while a job is exported is turned by __call__ and main
\* into a structured failure result, and no exception leaves main.
C4_ErrorsBecomeFailureResult ==
    (failure.step # "none" /\ pc # "raised") =>
        (result = "error" /\ exc = "none" /\ pc # "escaped")

\* C5: a second run of the same request on the same destination store
\* succeeds like the first and leaves the same tables, views and rows.
C5_RerunIdentical ==
    run >= 2 =>
        /\ failure.step # "none" => failure.injected
        /\ pc = "done" => Store = first

\* p is a literal prefix of s.
IsPrefix(p, s) == Len(p) <= Len(s) /\ SubSeq(s, 1, Len(p)) = p

\* The paths staged for the job.
StagedPaths ==
    {global_temp_fact_param_table[i].char_param1 :
        i \in 1..Len(global_temp_fact_param_table)}

\* The members of the job's patient set.
Members ==
    {m.patient_num : m \in {n \in Range(qt_patient_set_collection) :
                                n.result_instance_id = job.patient_set}}

\* patient_data has run and nothing has been fetched from its cursor.
FactsSelected ==
    /\ pc = "export_data"
    /\ copyTo = "observation_fact"
    /\ held = << >>
    /\ rows["observation_fact"] = << >>

\* C6: the fact selection returns exactly the source facts whose code belongs
\* to a dictionary entry with a path under a staged path and whose patient is
\* in the patient set, each once; none for a patient set without members.
C6_FactsUnderStagedPaths ==
    FactsSelected =>
        SameRows(cursors.data,
            SelectSeq(observation_fact, LAMBDA f :
                /\ f.patient_num \in Members
                /\ \E c \in Range(concept_dimension) :
                       /\ c.concept_cd = f.concept_cd
                       /\ \E t \in StagedPaths : IsPrefix(t, c.concept_path)))

\* The rows of the source query that table `to` of the destination is copied
\* from.
CopySource(to) ==
    CASE to = "observation_fact" ->
             s_facts(observation_fact,
                     code_ins(StagingRowsOf(job.concepts), concept_dimension),
                     qt_patient_set_collection, job.patient_set)
      [] to = "patient_dimension" ->
             pat_q(patient_dimension, qt_patient_set_collection, job.patient_set)
      [] to = "visit_dimension" ->
             enc_q(visit_dimension, patient_dimension, qt_patient_set_collection,
                   job.patient_set)

\* The cursor that table `to` is copied from.
CursorOf(to) ==
    CASE to = "observation_fact" -> "data"
      [] to = "patient_dimension" -> "pat"
      [] to = "visit_dimension" -> "enc"

\* The copy into table `to` has completed in this run and export is at a
\* later statement or has just returned.
Copied(to) ==
    /\ pc \in Range(export_steps) \cup {"done"}
    /\ CASE to = "observation_fact" -> Len(done) >= 3
         [] to = "patient_dimension" ->
                Len(done) >= 5 \/ (Len(done) = 4 /\ stmt = 2 /\ copyTo # to)
         [] to = "visit_dimension" ->
                Len(done) >= 5 \/ (Len(done) = 4 /\ stmt = 2 /\ copyTo = "none")

\* C7: for every cursor of M rows and every batch size B >= 1, the copier
\* never holds more than B rows, what it has inserted, holds and has yet to
\* fetch is the cursor's rows in order, and after the copy the destination
\* table holds exactly the M rows in cursor order.  The cursor's rows are
\* those of the source query, in the order the cursor gave them when opened,
\* whichever that is.
C7_ChunkedCopyExact ==
    /\ Len(held) <= batch
    /\ \A to \in {"observation_fact", "patient_dimension", "visit_dimension"} :
          /\ (copyTo = to /\ failure.step = "none") =>
                 /\ rows[to] \o held \o cursors[CursorOf(to)] = opened[CursorOf(to)]
                 /\ SameRows(opened[CursorOf(to)], CopySource(to))
          /\ Copied(to) =>
                 /\ rows[to] = opened[CursorOf(to)]
                 /\ SameRows(opened[CursorOf(to)], CopySource(to))

\* Three facts were copied in batches of two.
C7_Witness ==
    /\ pc = "export_terms"
    /\ batch = 2
    /\ Len(rows["observation_fact"]) = 3
    /\ cursors.data = << >>

\* C8: when the insert of batch k fails the copy is aborted with the error,
\* no further batch is read or inserted, and the destination table holds
\* exactly the rows of batches 1..k-1 in order and no row of batch k.
C8_FailedBatchLeavesCommitted ==
    \A to \in {"observation_fact", "patient_dimension", "visit_dimension"} :
        (failure.table = to /\ failure.lost # << >>) =>
            /\ rows[to] \o failure.lost \o cursors[CursorOf(to)] = opened[CursorOf(to)]
            /\ SameRows(opened[CursorOf(to)], CopySource(to))
            /\ Len(rows[to]) % batch = 0
            /\ held = << >>
            /\ pc \in {"raised", "parse", "escaped"}
            /\ failure.step \notin Range(done)

\* The insert of the second batch of facts failed and the exception has
\* left main: the first batch is in the table.
C8_Witness ==
    /\ failure.table = "observation_fact"
    /\ failure.lost # << >>
    /\ Len(rows["observation_fact"]) = batch
    /\ pc = "escaped"

\* term_info has run and nothing has been fetched from its cursors.
TermsSelected ==
    /\ pc = "export_terms"
    /\ copyTo = "concept_dimension"
    /\ held = << >>
    /\ rows["concept_dimension"] = << >>
    /\ failure.step = "none"

\* No row occurs twice.
NoRepeat(rs) == Len(rs) = Cardinality(Range(rs))

\* C9: the concept-dictionary query returns exactly the distinct rows of the
\* concept dictionary whose path has a staged path as a literal prefix,
\* whatever characters the staged path holds.
C9_ConceptTermsByLiteralPrefix ==
    TermsSelected =>
        /\ NoRepeat(cursors.cd)
        /\ Range(cursors.cd) =
               {c \in Range(concept_dimension) :
                   \E t \in StagedPaths : IsPrefix(t, c.concept_path)}

\* No character of the text is read specially by LIKE.
Plain(t) == \A i \in 1..Len(t) : t[i] \notin {"%", "_", escape}

\* C10: the modifier-dictionary query returns exactly the distinct rows of
\* the modifier dictionary whose path is a prefix of some staged path; stated
\* here for staged paths of ordinary characters only.
C10_ModifierTermsByReversePrefix ==
    (TermsSelected /\ \A t \in StagedPaths : Plain(t)) =>
        /\ NoRepeat(cursors.md)
        /\ Range(cursors.md) =
               {m \in Range(modifier_dimension) :
                   \E t \in StagedPaths : IsPrefix(m.modifier_path, t)}

\* demographics has run and nothing has been fetched from the visit cursor.
VisitsSelected ==
    /\ pc = "export_patients"
    /\ copyTo = "patient_dimension"
    /\ failure.step = "none"

\* The visits of patient n in the source.
VisitsOf(n) == {v \in Range(visit_dimension) : v.patient_num = n}

\* The visit the tie-break picks for patient n: among the visits with the
\* latest start the one with the greatest encounter id.
LatestVisit(n) ==
    CHOOSE v \in VisitsOf(n) :
        \A w \in VisitsOf(n) :
            \/ w.start_date < v.start_date
            \/ (w.start_date = v.start_date /\ w.encounter_num <= v.encounter_num)

\* C11: the latest-visit query returns, for each patient of the patient set
\* that has a visit, exactly one visit row (latest start, then greatest
\* encounter id), no visit row of a patient outside the set, and no row for
\* an empty set.
C11_OneLatestVisitPerMember ==
    VisitsSelected =>
        /\ NoRepeat(cursors.enc)
        /\ Range(cursors.enc) = {LatestVisit(n) : n \in {m \in Members : VisitsOf(m) # {}}}

\* export_summary has returned the rows of data_summary in this run.
Summarized == Len(done) = Len(export_steps)

\* The rows of the summary that show variable r of the destination.
SummaryRowsOf(r) ==
    SelectSeq(out.summary, LAMBDA g :
        g.concept_path = r.concept_path /\ g.name_char = r.name_char)

\* C12: the summary export returns has exactly one row per requested concept,
\* whatever the concepts match (a concept without matching facts, two
\* concepts that share a path), and its counts are not negative.
C12_SummaryRowPerConcept ==
    Summarized =>
        /\ Len(out.summary) = Len(job.concepts.keys)
        /\ \A r \in Range(variable_rows(job.concepts)) : Len(SummaryRowsOf(r)) = 1
        /\ \A i \in 1..Len(out.summary) :
               out.summary[i].pat_qty >= 0 /\ out.summary[i].fact_qty >= 0

\* ------------------------------------------- keys_to_paths on its own

\* Every text of at most n characters over the separator and a letter.
Texts(n) == UNION {[1..k -> {bs, "a"}] : k \in 0..n}

\* Concepts with the keys ks, named by position.
ConceptsOf(ks) == [keys |-> ks, names |-> [i \in 1..Len(ks) |-> concept_names[i]]]

\* A DataExtract about to save the concepts of a call, whose keys are any
\* texts, well-formed keys or not.
InitPaths ==
    /\ \E n \in 0..MaxConcepts : \E ks \in [1..n -> Texts(MaxKeyLen)] :
           job = [concepts |-> ConceptsOf(ks), patient_set |-> 123,
                  label |-> "Interesting Cohort", filename |-> "job1"]
    /\ batch = 1
    /\ global_temp_fact_param_table = StaleParams
    /\ query_global_temp = << >>
    /\ pc = "save_concepts"
    /\ stmt = 0
    /\ Fresh
    /\ jobs = << >>
    /\ at = << >>
    /\ got = << >>
    /\ disturbed = << >>

\* term_info on its own, account.execute(tmp.delete()): the staging table
\* is emptied.
SaveConceptsDelete ==
    /\ pc = "save_concepts"
    /\ stmt = 0
    /\ global_temp_fact_param_table' = Delete(global_temp_fact_param_table)
    /\ Continue
    /\ UNCHANGED << source, workers, query_global_temp, dest, copier, failure, app, out >>

\* term_info on its own, if len(bind) > 0: account.execute(ins, bind): the
\* rows _save_concepts made of keys_to_paths on the keys are staged.
SaveConceptsInsert ==
    /\ pc = "save_concepts"
    /\ stmt = 1
    /\ global_temp_fact_param_table' =
           stage_insert(global_temp_fact_param_table, job.concepts)
    /\ pc' = "saved"
    /\ stmt' = 0
    /\ UNCHANGED << source, workers, query_global_temp, dest, copier, made, done,
                    failure, app, out >>

NextPaths == SaveConceptsDelete \/ SaveConceptsInsert

SpecPaths == InitPaths /\ [][NextPaths]_vars

\* The places of the separator in a key, in order.
Separators(key) == SelectSeq([i \in 1..Len(key) |-> i], LAMBDA i : key[i] = bs)

\* The key without its table-access prefix: from its third separator on, or
\* the separator alone for a key that has no more than the prefix.
AfterPrefix(key) ==
    IF Len(Separators(key)) >= TableAccessSegments
    THEN SubSeq(key, Separators(key)[TableAccessSegments], Len(key))
    ELSE << bs >>

\* C13: keys_to_paths maps each key, in order, to the separator followed by
\* the key's segments after its 3-segment prefix, rejoined with the
\* separator (order, content and separators kept, a trailing separator
\* included); the result is as long as the input, empty for an empty input.
C13_KeysToPathsDropsPrefix ==
    pc = "saved" =>
        /\ Len(global_temp_fact_param_table) = Len(job.concepts.keys)
        /\ \A i \in 1..Len(job.concepts.keys) :
               global_temp_fact_param_table[i].char_param1 =
                   AfterPrefix(job.concepts.keys[i])

\* Two keys were converted: one whose rest ends with a separator and one
\* whose rest is two empty segments.
C13_Witness ==
    /\ pc = "saved"
    /\ Len(job.concepts.keys) = 2
    /\ job.concepts.keys[1] = << bs, bs, bs, "a", bs >>
    /\ global_temp_fact_param_table[1].char_param1 = << bs, "a", bs >>
    /\ job.concepts.keys[2] = << bs, bs, "a", bs, bs >>
    /\ global_temp_fact_param_table[2].char_param1 = << bs, bs >>

\* C14: a failure of the notification collaborator never fails the job:
\* whatever emailer.sendEmail raises is caught and logged inside
\* send_completion_mail, which returns normally; no step of
\* send_completion_mail changes the dataset; and mail is sent only after an
\* export that succeeded.
C14_MailFailureHarmless ==
    [][ /\ (pc = "mail" /\ mail' \in {"sent", "warned", "failed"}) =>
             /\ mail' # "failed"
             /\ pc' = "exit"
             /\ exc' = "none"
             /\ result' = "json"
        /\ pc = "mail" => << tables, views, rows >>' = << tables, views, rows >>
        /\ mail' \notin {mail, "none"} =>
             /\ pc = "mail"
             /\ result = "json"
             /\ failure.step = "none"
             /\ done = export_steps ]_vars

\* sendEmail raised after an export that wrote facts; main has returned.
C14_Witness ==
    /\ mail = "warned"
    /\ pc = "exit"
    /\ exc = "none"
    /\ rows["observation_fact"] # << >>

\* The request names no concept and export_terms has completed in this run.
EmptyTermsExported == job.concepts.keys = << >> /\ Len(done) >= 4

\* C15: with an empty concept list the export runs through every step and the
\* concept-dependent outputs are empty: no staged row, no staged code, no row
\* in the destination variable, observation_fact, concept_dimension and
\* modifier_dimension tables, and a summary without data rows.
C15_EmptyConceptsEmptyOutputs ==
    /\ (job.concepts.keys = << >> /\ failure.step = "none") => pc # "raised"
    /\ EmptyTermsExported =>
           /\ global_temp_fact_param_table = << >>
           /\ query_global_temp = << >>
           /\ rows["variable"] = << >>
           /\ rows["observation_fact"] = << >>
           /\ rows["concept_dimension"] = << >>
           /\ rows["modifier_dimension"] = << >>
           /\ out.summary = << >>

\* export_terms has completed in this run for a request of some concept.
TermsExported == job.concepts.keys # << >> /\ Len(done) >= 4

\* C16: after ExportTerms the destination concept_dimension holds exactly the
\* rows of the concept-dictionary query, the destination modifier_dimension
\* exactly the rows of the modifier-dictionary query, and the variable table
\* one record per requested concept; stated here for requests of at least
\* one concept.
C16_TermsExportedMatchQueries ==
    TermsExported =>
        /\ rows["concept_dimension"] =
               OrderBy(q_cd(StagingRowsOf(job.concepts), concept_dimension),
                       "concept_path")
        /\ rows["modifier_dimension"] =
               OrderBy(q_md(StagingRowsOf(job.concepts), modifier_dimension),
                       "modifier_path")
        /\ rows["variable"] = variable_rows(job.concepts)

\* The rows of the destination observation_fact, by position, whose code has
\* a destination dictionary path under the path p.
FactsUnder(p) ==
    {i \in 1..Len(rows["observation_fact"]) :
        \E c \in Range(rows["concept_dimension"]) :
            /\ c.concept_cd = rows["observation_fact"][i].concept_cd
            /\ IsPrefix(p, c.concept_path)}

\* C18: in every row of the summary the fact count is the number of
\* destination observation_fact rows whose code has a dictionary path under
\* the variable's path and the patient count the number of distinct patients
\* among them; no fact row is counted twice for a variable, so the fact count
\* never exceeds the number of exported facts.  Stated here for variable
\* paths of ordinary characters.
C18_SummaryCountsFactsOnce ==
    Summarized =>
        \A i \in 1..Len(out.summary) :
            Plain(out.summary[i].concept_path) =>
                /\ out.summary[i].fact_qty =
                       Cardinality(FactsUnder(out.summary[i].concept_path))
                /\ out.summary[i].pat_qty =
                       Cardinality({rows["observation_fact"][k].patient_num :
                                       k \in FactsUnder(out.summary[i].concept_path)})
                /\ out.summary[i].fact_qty <= Len(rows["observation_fact"])

\* ------------------------------- two jobs on the same staging tables

\* The jobs that run at the same time on one source account.
JobIds == {1, 2}

\* The keys their requests draw concepts from.
JobKeys == { Key(P1("a")), Key(P1("c")) }

\* The statements of patient_data and then of term_info that a job executes
\* on the source account, in order; "end" after the last.
JobSteps == << "pd_delete", "pd_insert", "pd_code_delete", "pd_code_insert",
               "pd_select", "ti_delete", "ti_insert", "ti_cd", "ti_md", "end" >>

\* The place of a statement in JobSteps.
StepNo(s) == CHOOSE k \in 1..Len(JobSteps) : JobSteps[k] = s

\* The phase a job is in the middle of: it has executed the first delete of
\* the phase and not yet its last select.
Inside(s) ==
    CASE s \in {"pd_insert", "pd_code_delete", "pd_code_insert", "pd_select"} ->
             {"patient_data"}
      [] s \in {"ti_insert", "ti_cd", "ti_md"} -> {"term_info"}
      [] OTHER -> {}

\* Two jobs with different concept lists are about to run patient_data for
\* patient set 125; the staging tables hold what an earlier job left.
InitJobs ==
    /\ \E n1, n2 \in 0..MaxJobConcepts :
          \E k1 \in [1..n1 -> JobKeys], k2 \in [1..n2 -> JobKeys] :
              /\ k1 # k2
              /\ jobs = [j \in JobIds |->
                    [concepts |-> ConceptsOf(IF j = 1 THEN k1 ELSE k2),
                     patient_set |-> 125,
                     label |-> "Interesting Cohort",
                     filename |-> IF j = 1 THEN "job1" ELSE "job2"]]
    /\ at = [j \in JobIds |-> JobSteps[1]]
    /\ got = [j \in JobIds |-> [data |-> << >>, cd |-> << >>, md |-> << >>]]
    /\ disturbed = [j \in JobIds |-> {}]
    /\ job = jobs[1]
    /\ batch = 1
    /\ global_temp_fact_param_table = StaleParams
    /\ query_global_temp = StaleCodes
    /\ pc = "jobs"
    /\ stmt = 0
    /\ Fresh

\* Job j has executed the statement it was at.
Advance(j) == at' = [at EXCEPT ![j] = JobSteps[StepNo(@) + 1]]

\* Job j has written to a staging table: a job in the middle of a phase has
\* had that phase written into by another.
Wrote(j) ==
    disturbed' = [k \in JobIds |->
                     IF k # j THEN disturbed[k] \cup Inside(at[k]) ELSE disturbed[k]]

\* What the statements of a job leave alone.
JobFrame ==
    UNCHANGED << source, dest, copier, pc, stmt, made, done, failure, app, out, jobs >>

\* patient_data: account.execute(var_tmp.delete())
PdDelete(j) ==
    /\ at[j] = "pd_delete"
    /\ global_temp_fact_param_table' = Delete(global_temp_fact_param_table)
    /\ Advance(j) /\ Wrote(j) /\ JobFrame
    /\ UNCHANGED << query_global_temp, got >>

\* patient_data: if len(var_bind) > 0: account.execute(var_ins, var_bind)
PdInsert(j) ==
    /\ at[j] = "pd_insert"
    /\ global_temp_fact_param_table' =
           stage_insert(global_temp_fact_param_table, jobs[j].concepts)
    /\ IF Len(save_concepts_bind(jobs[j].concepts)) > 0
       THEN Wrote(j) ELSE UNCHANGED disturbed
    /\ Advance(j) /\ JobFrame
    /\ UNCHANGED << query_global_temp, got >>

\* patient_data: account.execute(code_tmp.delete())
PdCodeDelete(j) ==
    /\ at[j] = "pd_code_delete"
    /\ query_global_temp' = Delete(query_global_temp)
    /\ Advance(j) /\ Wrote(j) /\ JobFrame
    /\ UNCHANGED << global_temp_fact_param_table, got >>

\* patient_data: account.execute(ins), the codes of the staged paths.
PdCodeInsert(j) ==
    /\ at[j] = "pd_code_insert"
    /\ query_global_temp' =
           Insert(query_global_temp,
                  code_ins(global_temp_fact_param_table, concept_dimension))
    /\ Advance(j) /\ Wrote(j) /\ JobFrame
    /\ UNCHANGED << global_temp_fact_param_table, got >>

\* patient_data: account.execute(sel, id=patient_set); the rows come in an
\* order of the engine's choosing.
PdSelect(j) ==
    /\ at[j] = "pd_select"
    /\ \E data \in execute_select(s_facts(observation_fact, query_global_temp,
                                          qt_patient_set_collection,
                                          jobs[j].patient_set)) :
          got' = [got EXCEPT ![j].data = data]
    /\ Advance(j) /\ JobFrame
    /\ UNCHANGED << staging, disturbed >>

\* term_info: account.execute(tmp.delete())
TiDelete(j) ==
    /\ at[j] = "ti_delete"
    /\ global_temp_fact_param_table' = Delete(global_temp_fact_param_table)
    /\ Advance(j) /\ Wrote(j) /\ JobFrame
    /\ UNCHANGED << query_global_temp, got >>

\* term_info: if len(bind) > 0: account.execute(ins, bind)
TiInsert(j) ==
    /\ at[j] = "ti_insert"
    /\ global_temp_fact_param_table' =
           stage_insert(global_temp_fact_param_table, jobs[j].concepts)
    /\ IF Len(save_concepts_bind(jobs[j].concepts)) > 0
       THEN Wrote(j) ELSE UNCHANGED disturbed
    /\ Advance(j) /\ JobFrame
    /\ UNCHANGED << query_global_temp, got >>

\* term_info: account.execute(q_cd ordered by concept_path)
TiSelectCd(j) ==
    /\ at[j] = "ti_cd"
    /\ got' = [got EXCEPT ![j].cd =
                  OrderBy(q_cd(global_temp_fact_param_table, concept_dimension),
                          "concept_path")]
    /\ Advance(j) /\ JobFrame
    /\ UNCHANGED << staging, disturbed >>

\* term_info: account.execute(q_md ordered by modifier_path)
TiSelectMd(j) ==
    /\ at[j] = "ti_md"
    /\ got' = [got EXCEPT ![j].md =
                  OrderBy(q_md(global_temp_fact_param_table, modifier_dimension),
                          "modifier_path")]
    /\ Advance(j) /\ JobFrame
    /\ UNCHANGED << staging, disturbed >>

NextJobs ==
    \E j \in JobIds :
        \/ PdDelete(j)
        \/ PdInsert(j)
        \/ PdCodeDelete(j)
        \/ PdCodeInsert(j)
        \/ PdSelect(j)
        \/ TiDelete(j)
        \/ TiInsert(j)
        \/ TiSelectCd(j)
        \/ TiSelectMd(j)

SpecJobs == InitJobs /\ [][NextJobs]_vars

\* What job j selects when it runs with the staging tables to itself.
Own(j) ==
    LET staged == StagingRowsOf(jobs[j].concepts)
    IN  [data |-> s_facts(observation_fact, code_ins(staged, concept_dimension),
                          qt_patient_set_collection, jobs[j].patient_set),
         cd |-> OrderBy(q_cd(staged, concept_dimension), "concept_path"),
         md |-> OrderBy(q_md(staged, modifier_dimension), "modifier_path")]

\* Job j has executed the statement s.
Past(j, s) == StepNo(at[j]) > StepNo(s)

\* C17: the statements of term_info and patient_data are not isolated: two
\* jobs with different concept lists on the same staging tables have an
\* interleaving in which a job's selection is evaluated on rows the other
\* staged, so that it selects facts or terms it did not request or misses its
\* own.  As an invariant: a selection differs from the job's own (the facts
\* in whatever order) only when the other job wrote to the staging tables in
\* the middle of that phase.
C17_InterleavingCorruptsSelection ==
    \A j \in DOMAIN at :
        /\ (Past(j, "pd_select") /\ ~SameRows(got[j].data, Own(j).data)) =>
               "patient_data" \in disturbed[j]
        /\ (Past(j, "ti_cd") /\ got[j].cd # Own(j).cd) =>
               "term_info" \in disturbed[j]
        /\ (Past(j, "ti_md") /\ got[j].md # Own(j).md) =>
               "term_info" \in disturbed[j]

\* Both jobs have ended; job 1 requested \a\ and selected the terms of job 2,
\* which requested \c\, and none of its own.
C17_Witness ==
    /\ DOMAIN at = JobIds
    /\ at[1] = "end" /\ at[2] = "end"
    /\ jobs[1].concepts.keys = << Key(P1("a")) >>
    /\ jobs[2].concepts.keys = << Key(P1("c")) >>
    /\ got[1].cd = Own(2).cd
    /\ got[1].cd # Own(1).cd
    /\ Own(1).cd # << >>
====
